---- MODULE Spec2Model ----
(***************************************************************************)
(* The ITG2 encrypted-file reader (RageFileDriverCrypt_ITG2.cpp): header   *)
(* parsing, key derivation and the process-wide key cache, verify-block    *)
(* check, and the random-access block decryption with its 4080-byte chain  *)
(* reset.  Bytes are 0..255; the AES and SHA-512 primitives and the dongle *)
(* are outside the repository's sources and are modelled by small keyed    *)
(* bijections / functions (a key is one byte instead of 24).               *)
(***************************************************************************)
EXTENDS Integers, Sequences, FiniteSets, TLC

VARIABLES
    objs,         \* the file objects: ObjIds -> record (see NoObj / open record)
    g_KnownKeys,  \* the key cache: string-buffer address -> key, or NoKey
    derivations,  \* history: how many keys were derived for each path value
    last,         \* the outcome of the last driver-facing call
    th,           \* per thread: position inside OpenInternal and its locals
    mapBusy,      \* threads that are inside a std::map operation right now
    corrupted,    \* TRUE once two unsynchronised map operations overlapped
    bInitialized, \* InputHandler_PIUIO::bInitialized, the static usage flag
    handlers      \* the InputHandler_PIUIO instances: HandlerIds -> record

vars == <<objs, g_KnownKeys, derivations, last, th, mapBusy, corrupted,
          bInitialized, handlers>>

(***************************************************************************)
(* Bytes and words.                                                        *)
(***************************************************************************)
Byte == 0..255

Zeros16 == [j \in 1..16 |-> 0]

RECURSIVE BitXor(_, _)
BitXor(a, b) ==
    IF a = 0 THEN b
    ELSE IF b = 0 THEN a
    ELSE ((a + b) % 2) + 2 * BitXor(a \div 2, b \div 2)

\* a 32-bit value as it lies in the file (the spec fixes little-endian)
LE32(n) == << n % 256, (n \div 256) % 256, (n \div 65536) % 256, (n \div 16777216) % 256 >>

FromLE32(b) == b[1] + 256 * b[2] + 65536 * b[3] + 16777216 * b[4]

RECURSIVE SumSeq(_)
SumSeq(s) == IF s = <<>> THEN 0 ELSE Head(s) + SumSeq(Tail(s))

(***************************************************************************)
(* The block cipher (aes/aes.h, not part of the sources): for each key a   *)
(* bijection on 16-byte blocks that mixes byte positions; different keys   *)
(* decrypt every byte differently.                                         *)
(***************************************************************************)
AESRot(j) == ((j + 4) % 16) + 1

AESRotInv(j) == ((j + 10) % 16) + 1

aes_decrypt(ct, key) ==
    [j \in 1..16 |-> (ct[AESRot(j)] + 512 - ((7 * key) % 256) - 3 * j) % 256]

aes_encrypt(pt, key) ==
    [j \in 1..16 |-> (pt[AESRotInv(j)] + ((7 * key) % 256) + 3 * AESRotInv(j)) % 256]

(***************************************************************************)
(* Key derivation.  The secrets are the strings of the source; SHA-512 and *)
(* the dongle are modelled as functions of their inputs.                   *)
(***************************************************************************)
ITG2_PATCH_KEY == "58691958710496814910943867304986071324198643072"

CRYPT_KEY_PC == "65487573252940086457044055343188392138734144585"

CRYPT_KEY_ARCADE == ""

Secrets == {CRYPT_KEY_ARCADE, CRYPT_KEY_PC, ITG2_PATCH_KEY}

SecretCode(secret) == IF secret = ITG2_PATCH_KEY THEN 97 ELSE 193

\* first 24 bytes of SHA-512( subkey || secret )
SHA512_Simple(subkey, secret) == (31 * SumSeq(subkey) + SecretCode(secret) + 11) % 256

\* iButton::GetAESKey( subkey, AESKey )
GetAESKey(subkey) == (17 * SumSeq(subkey) + 5) % 256

(***************************************************************************)
(* The files on disk.  A well-formed file is what a producer writes: the   *)
(* header of the format table, the verify block ":D..." encrypted under    *)
(* the file's key, and the body: the inverse of the read transform, block  *)
(* by block, the chain restarting every 4080 bytes.                        *)
(***************************************************************************)
ChainMask(backbuffer) == [j \in 1..16 |-> (backbuffer[j] + 256 - (j - 1)) % 256]

XorBlock(a, b) == [j \in 1..16 |-> BitXor(a[j], b[j])]

ProducerBlock(key, P, b, prevct) ==
    LET back == IF (16 * b) % 4080 = 0 THEN Zeros16 ELSE prevct
        pt   == SubSeq(P, 16 * b + 1, 16 * b + 16)
    IN  aes_encrypt(XorBlock(pt, ChainMask(back)), key)

\* the ciphertext of blocks lo..hi, given the ciphertext of block lo-1
RECURSIVE ProducerRange(_, _, _, _, _)
ProducerRange(key, P, lo, hi, prevct) ==
    IF lo = hi THEN ProducerBlock(key, P, lo, prevct)
    ELSE LET mid   == (lo + hi) \div 2
             left  == ProducerRange(key, P, lo, mid, prevct)
             right == ProducerRange(key, P, mid + 1, hi,
                                    SubSeq(left, Len(left) - 15, Len(left)))
         IN  left \o right

ProducerBody(key, P) == ProducerRange(key, P, 0, (Len(P) \div 16) - 1, Zeros16)

\* the logical content of a file, and the same padded to whole blocks
PlainOf(seed, size) ==
    [o \in 1..size |-> (7 * (o - 1) + 3 * ((o - 1) \div 16) + seed) % 256]

Padded(P) ==
    LET n == ((Len(P) + 15) \div 16) * 16
    IN  [o \in 1..n |-> IF o <= Len(P) THEN P[o] ELSE (o * 5) % 256]

MagicArcade == <<58, 124>>

MagicPatch == <<56, 79>>

VerifyPlain == <<58, 68, 1, 2, 3, 4, 5, 6, 7, 8, 9, 10, 11, 12, 13, 14>>

FileHeader(magic, size, subkey, key) ==
    magic \o LE32(size) \o LE32(Len(subkey)) \o subkey
          \o aes_encrypt(VerifyPlain, key)

\* sizes of the modelled files: one spans a chain reset, one is the
\* 100-byte file of the size scenario
BigSize == 4100

SmallSize == 100

BigSubkey == <<1, 2>>

SmallSubkey == <<9, 8, 7>>

BigPlain == PlainOf(3, BigSize)

SmallPlain == PlainOf(40, SmallSize)

BigKey == SHA512_Simple(BigSubkey, ITG2_PATCH_KEY)

SmallKey == GetAESKey(SmallSubkey)

BigBody == ProducerBody(BigKey, Padded(BigPlain))

SmallBody == ProducerBody(SmallKey, Padded(SmallPlain))

\* the big file with the ciphertext of block 254 (the last of segment 0) changed
TwinBody ==
    [o \in 1..Len(BigBody) |->
        IF o > 4064 /\ o <= 4080 THEN (BigBody[o] + 1 + o) % 256 ELSE BigBody[o]]

Disk ==
    [big   |-> FileHeader(MagicPatch, BigSize, BigSubkey, BigKey) \o BigBody,
     twin  |-> FileHeader(MagicPatch, BigSize, BigSubkey, BigKey) \o TwinBody,
     song  |-> FileHeader(MagicArcade, SmallSize, SmallSubkey, SmallKey) \o SmallBody,
     short |-> <<58, 124, 100, 0, 0>>,
     mixed |-> FileHeader(<<58, 79>>, SmallSize, SmallSubkey, SmallKey) \o SmallBody]

\* path values a caller may pass; "gone" names no file
Paths == {"big", "twin", "song", "short", "mixed", "gone"}

FileExists(path) == path \in DOMAIN Disk

(***************************************************************************)
(* A file object.  pos is the logical position Tell() reports; rawpos is   *)
(* the position of the underlying descriptor that SeekInternal sets and    *)
(* ReadDirect advances.  m_ctx holds the key the schedule was built from.  *)
(***************************************************************************)
NumObjs == 2

ObjIds == 1..NumObjs

\* addresses a path string's character buffer can have
NumAddrs == 2

Addrs == 1..NumAddrs

NoKey == -1

NoObj ==
    [st |-> "none", path |-> "", pathAddr |-> 0, m_sSecret |-> "",
     m_iHeaderSize |-> 0, m_iFileSize |-> 0, m_ctx |-> NoKey,
     pos |-> 0, rawpos |-> 0]

\* RageFileObjCrypt_ITG2( secret ) followed by RageFileObjDirect::OpenInternal
NewObj(path, pathAddr, secret) ==
    [NoObj EXCEPT !.st = "open", !.path = path, !.pathAddr = pathAddr,
                  !.m_sSecret = secret]

Tell(o) == o.pos

SeekInternal(o, offset) == [o EXCEPT !.rawpos = offset]

\* bytes a buffer holds where nothing was written into it: whatever the
\* allocator left there
Junk == {0, 165}

\* read( fd, buffer, bytes ): delivers what the file holds from rawpos on and
\* leaves the rest of the buffer as it was (junk)
ReadDirect(o, bytes, junk) ==
    LET raw   == Disk[o.path]
        avail == IF o.rawpos >= Len(raw) THEN 0 ELSE Len(raw) - o.rawpos
        got   == IF bytes < avail THEN bytes ELSE avail
    IN  [got |-> got,
         buf |-> [k \in 1..bytes |-> IF k <= got THEN raw[o.rawpos + k] ELSE junk],
         obj |-> [o EXCEPT !.rawpos = @ + got]]

(***************************************************************************)
(* OpenInternal, in its phases: the header, the key (cache lookup, or      *)
(* derivation and insertion), the verify block.                            *)
(***************************************************************************)
\* the two comparisons joined the wrong way round
MagicOKEither(m_sSecret, header) ==
    IF m_sSecret = ""
    THEN ~(header[1] # 58 /\ header[2] # 124)
    ELSE ~(header[1] # 56 /\ header[2] # 79)

MagicOK(m_sSecret, header) ==
    IF m_sSecret = ""
    THEN ~(header[1] # 58 \/ header[2] # 124)
    ELSE ~(header[1] # 56 \/ header[2] # 79)

HeaderFail(stage, o) ==
    [ok |-> FALSE, stage |-> stage, obj |-> o, subkey |-> <<>>, verifyblock |-> <<>>]

\* lines 118-124: the verify block
HeaderVerify(subkey, r5) ==
    IF r5.got < 16 THEN HeaderFail("verifyblock", r5.obj)
    ELSE [ok |-> TRUE, stage |-> "", subkey |-> subkey, verifyblock |-> r5.buf,
          obj |-> [r5.obj EXCEPT !.m_iHeaderSize = @ + 16]]

\* lines 108-116: the subkey
HeaderSubkey(subkey_size, r4) ==
    IF r4.got < subkey_size THEN HeaderFail("subkey", r4.obj)
    ELSE HeaderVerify(r4.buf,
             ReadDirect([r4.obj EXCEPT !.m_iHeaderSize = @ + subkey_size], 16, 0))

\* lines 100-106: the subkey's length
HeaderSubkeySize(r3) ==
    IF r3.got < 4 THEN HeaderFail("subkeysize", r3.obj)
    ELSE HeaderSubkey(FromLE32(r3.buf),
             ReadDirect([r3.obj EXCEPT !.m_iHeaderSize = @ + 4], FromLE32(r3.buf), 0))

\* lines 92-97: the file size
HeaderFileSize(r2) ==
    IF r2.got < 4 THEN HeaderFail("filesize", r2.obj)
    ELSE HeaderSubkeySize(
             ReadDirect([r2.obj EXCEPT !.m_iFileSize = FromLE32(r2.buf),
                                       !.m_iHeaderSize = @ + 4], 4, 0))

\* the header's length counted on from what the object held before
HeaderMagicAccumulate(r1) ==
    IF r1.got < 2 THEN HeaderFail("header", r1.obj)
    ELSE IF ~MagicOK(r1.obj.m_sSecret, r1.buf) THEN HeaderFail("magic", r1.obj)
    ELSE HeaderFileSize(ReadDirect([r1.obj EXCEPT !.m_iHeaderSize = @ + 2], 4, 0))

\* lines 66-90: the magic
HeaderMagic(r1) ==
    IF r1.got < 2 THEN HeaderFail("header", r1.obj)
    ELSE IF ~MagicOK(r1.obj.m_sSecret, r1.buf) THEN HeaderFail("magic", r1.obj)
    ELSE HeaderFileSize(ReadDirect([r1.obj EXCEPT !.m_iHeaderSize = 2], 4, 0))

\* lines 66-124; o is the object with its descriptor freshly opened
ParseHeader(o) == HeaderMagic(ReadDirect(o, 2, 0))

\* g_KnownKeys.find( sPath.c_str() ): the map compares the pointers
FindKey(cache, addr) == cache[addr]

\* lines 137-162
DeriveKey(m_sSecret, subkey) ==
    IF m_sSecret = "" THEN GetAESKey(subkey) ELSE SHA512_Simple(subkey, m_sSecret)

\* g_KnownKeys[sPath.c_str()] = AESKey
InsertKey(cache, addr, AESKey) == [cache EXCEPT ![addr] = AESKey]

\* the outcome of the check ignored
VerifyKeyIgnored(verifyblock, AESKey) == TRUE

\* lines 176-187: the key goes into the schedule, then the verify block decides
VerifyKey(verifyblock, AESKey) ==
    LET plaintext == aes_decrypt(verifyblock, AESKey)
    IN  ~(plaintext[1] # 58 \/ plaintext[2] # 68)

\* lines 176-190, with the key that lines 126-172 settled on
OpenVerify(h, AESKey, cache, derived) ==
    [ok      |-> VerifyKey(h.verifyblock, AESKey),
     stage   |-> IF VerifyKey(h.verifyblock, AESKey) THEN "" ELSE "verify",
     obj     |-> [h.obj EXCEPT !.m_ctx = AESKey],
     cache   |-> cache,
     derived |-> derived]

\* lines 126-172: the cached key, or a derived one that goes into the cache
OpenKey(h, addr, cache) ==
    IF FindKey(cache, addr) = NoKey
    THEN OpenVerify(h, DeriveKey(h.obj.m_sSecret, h.subkey),
                    InsertKey(cache, addr, DeriveKey(h.obj.m_sSecret, h.subkey)), TRUE)
    ELSE OpenVerify(h, FindKey(cache, addr), cache, FALSE)

OpenHeader(h, addr, cache) ==
    IF ~h.ok
    THEN [ok |-> FALSE, stage |-> h.stage, obj |-> h.obj, cache |-> cache,
          derived |-> FALSE]
    ELSE OpenKey(h, addr, cache)

\* the whole of OpenInternal( sPath, iMode, iError ) on object o; addr is
\* sPath.c_str(), own the address of the object's copy of the path
OpenInternal(o, sPath, addr, own, cache) ==
    IF ~FileExists(sPath)
    THEN [ok |-> FALSE, stage |-> "nofile", obj |-> o, cache |-> cache,
          derived |-> FALSE]
    ELSE OpenHeader(ParseHeader([o EXCEPT !.st = "open", !.path = sPath,
                                          !.pathAddr = own, !.rawpos = 0]),
                    addr, cache)

(***************************************************************************)
(* ReadInternal: the block-aligned window, the look-behind block, the      *)
(* decryption loop with the chain reset, and the copy-out.                 *)
(***************************************************************************)
QuantizeUp(i, iInterval) == ((i + iInterval - 1) \div iInterval) * iInterval

\* the look-behind block taken at the window's start, not 16 bytes before it
InitBackbufferAtStart(o, startpos, junk) ==
    IF startpos % 4080 = 0
    THEN [got |-> 16, buf |-> Zeros16, obj |-> o]
    ELSE ReadDirect(SeekInternal(o, o.m_iHeaderSize + startpos), 16, junk)

\* lines 220-229
InitBackbuffer(o, startpos, junk) ==
    IF startpos % 4080 = 0
    THEN [got |-> 16, buf |-> Zeros16, obj |-> o]
    ELSE ReadDirect(SeekInternal(o, o.m_iHeaderSize + (startpos - 16)), 16, junk)

\* the mask without the per-position subtraction (plain CBC)
UnmaskNoSub(xorbuf, backbuffer) ==
    [j \in 1..16 |-> BitXor(xorbuf[j], backbuffer[j])]

\* line 243: dcbuf[(i*16)+j] = xorbuf[j] ^ (backbuffer[j] - j), j counted from 0
Unmask(xorbuf, backbuffer) ==
    [j \in 1..16 |-> BitXor(xorbuf[j], (backbuffer[j] + 256 - (j - 1)) % 256)]

\* the chain carried across the 4080-byte boundary
NextBackbufferNoReset(startpos, i, ctblock) == ctblock

\* lines 245-248
NextBackbuffer(startpos, i, ctblock) ==
    IF ((startpos + i * 16) + 16) % 4080 # 0 THEN ctblock ELSE Zeros16

\* lines 236-249: blocks i .. nblocks-1 of the window
RECURSIVE DecryptLoop(_, _, _, _, _, _)
DecryptLoop(crbuf, i, nblocks, startpos, backbuffer, m_ctx) ==
    IF i >= nblocks THEN <<>>
    ELSE LET ctblock == SubSeq(crbuf, i * 16 + 1, i * 16 + 16)
             xorbuf  == aes_decrypt(ctblock, m_ctx)
         IN  Unmask(xorbuf, backbuffer)
                \o DecryptLoop(crbuf, i + 1, nblocks, startpos,
                               NextBackbuffer(startpos, i, ctblock), m_ctx)

\* lines 198-209; every position and length of the model is far below 2^31,
\* where the unsigned arithmetic of the source does not wrap
StartPos(oldpos) == (oldpos \div 16) * 16

EndPos(oldpos, bytes) == QuantizeUp(oldpos + bytes, 16)

BufSize(oldpos, bytes) == EndPos(oldpos, bytes) - StartPos(oldpos)

\* lines 251-258
ReadDeliver(o, bytes, junk, bb, cr, dcbuf) ==
    [buffer |-> [k \in 1..bytes |->
                    IF (Tell(o) - StartPos(Tell(o))) + k <= Len(dcbuf)
                    THEN dcbuf[(Tell(o) - StartPos(Tell(o))) + k] ELSE junk],
     ret    |-> bytes,
     short  |-> (bb.got < 16 \/ cr.got < BufSize(Tell(o), bytes)),
     obj    |-> SeekInternal(cr.obj, Tell(o) + bytes)]

\* lines 236-249
ReadDecrypt(o, bytes, junk, bb, cr) ==
    ReadDeliver(o, bytes, junk, bb, cr,
                DecryptLoop(cr.buf, 0, BufSize(Tell(o), bytes) \div 16,
                            StartPos(Tell(o)), bb.buf, o.m_ctx))

\* the window sought without the header's length
ReadWindowNoHeader(o, bytes, junk, bb) ==
    ReadDecrypt(o, bytes, junk, bb,
                ReadDirect(SeekInternal(bb.obj, StartPos(Tell(o))),
                           BufSize(Tell(o), bytes), junk))

\* lines 231-233
ReadWindow(o, bytes, junk, bb) ==
    ReadDecrypt(o, bytes, junk, bb,
                ReadDirect(SeekInternal(bb.obj, o.m_iHeaderSize + StartPos(Tell(o))),
                           BufSize(Tell(o), bytes), junk))

\* the whole of ReadInternal( buffer, bytes ): what it puts into buffer, what
\* it returns, and the object afterwards
ReadInternal(o, bytes, junk) ==
    ReadWindow(o, bytes, junk, InitBackbuffer(o, StartPos(Tell(o)), junk))

(***************************************************************************)
(* The driver-facing calls, each one atomic on the caller's thread.        *)
(***************************************************************************)
NoLast ==
    [op |-> "none", id |-> 0, path |-> "", secret |-> "", ok |-> FALSE,
     stage |-> "", derived |-> FALSE, key |-> NoKey, c |-> 0, n |-> 0, ret |-> 0,
     data |-> <<>>, short |-> FALSE]

Threads == {1, 2}

IdleThread ==
    [pc |-> "idle", path |-> "", addr |-> 0, secret |-> "", subkey |-> <<>>,
     verifyblock |-> <<>>, AESKey |-> NoKey, ok |-> FALSE]

Clamp(p, lo, hi) == IF p < lo THEN lo ELSE IF p > hi THEN hi ELSE p

\* callers read at a position they sought to, or right after one read from there
ReadStarts(o, targets, lens) ==
    LET anchors == {Clamp(p, 0, o.m_iFileSize) : p \in targets}
    IN  anchors \cup {a + n : a \in anchors, n \in lens}

LowestFree(id) == objs[id].st = "none" /\ \A k \in ObjIds : k < id => objs[k].st = "open"

\* InputHandler_PIUIO instances that can exist at a time
NumHandlers == 3

HandlerIds == 1..NumHandlers

\* an instance: its members m_bFoundDevice, Board (opened by this instance or
\* not) and InputThread (created or not); redundant records that its
\* constructor found the flag set
NoHandler ==
    [st |-> "none", m_bFoundDevice |-> FALSE, Board |-> "closed",
     InputThread |-> FALSE, redundant |-> FALSE]

Init ==
    /\ objs = [id \in ObjIds |-> NoObj]
    /\ g_KnownKeys = [a \in Addrs |-> NoKey]
    /\ derivations = [p \in Paths |-> 0]
    /\ last = NoLast
    /\ th = [t \in Threads |-> IdleThread]
    /\ mapBusy = {}
    /\ corrupted = FALSE
    /\ bInitialized = FALSE
    /\ handlers = [h \in HandlerIds |-> NoHandler]

OpenDone(id, path, addr, secret, r) ==
    /\ objs' = IF r.ok THEN [objs EXCEPT ![id] = r.obj] ELSE objs
    /\ g_KnownKeys' = r.cache
    /\ derivations' = IF r.derived THEN [derivations EXCEPT ![path] = @ + 1]
                                   ELSE derivations
    /\ last' = [NoLast EXCEPT !.op = "open", !.id = id, !.path = path,
                              !.secret = secret, !.ok = r.ok, !.stage = r.stage,
                              !.derived = r.derived, !.key = r.obj.m_ctx]

\* the driver's open: a new object, OpenInternal, and the object handed out
\* only if that succeeded
Open(id, path, addr, own, secret) ==
    /\ LowestFree(id)
    /\ OpenDone(id, path, addr, secret,
                OpenInternal(NewObj(path, own, secret), path, addr, own, g_KnownKeys))
    /\ UNCHANGED <<th, mapBusy, corrupted, bInitialized, handlers>>

\* lines 49-58: the copy carries the original's fields
CopyConstruct(cpy) == cpy

\* lines 266-274: the re-opened copy is sought to Tell() and returned, or the
\* failure is thrown and nothing is returned
CopyDone(this, id, r) ==
    /\ objs' = IF r.ok THEN [objs EXCEPT ![id] = SeekInternal(r.obj, Tell(this))]
                       ELSE objs
    /\ g_KnownKeys' = r.cache
    /\ derivations' = IF r.derived THEN [derivations EXCEPT ![this.path] = @ + 1]
                                   ELSE derivations
    /\ last' = [NoLast EXCEPT !.op = "copy", !.id = id, !.path = this.path,
                              !.secret = this.m_sSecret,
                              !.ok = r.ok, !.stage = r.stage, !.derived = r.derived,
                              !.key = r.obj.m_ctx, !.c = Tell(this)]

\* lines 261-275: Copy() re-opens under the original's path string
Copy(src, id, own) ==
    /\ objs[src].st = "open"
    /\ LowestFree(id)
    /\ CopyDone(objs[src], id,
                OpenInternal(CopyConstruct(objs[src]), objs[src].path,
                             objs[src].pathAddr, own, g_KnownKeys))
    /\ UNCHANGED <<th, mapBusy, corrupted, bInitialized, handlers>>

\* seek( pos )
Seek(id, p) ==
    /\ objs[id].st = "open"
    /\ objs' = [objs EXCEPT ![id].pos = Clamp(p, 0, objs[id].m_iFileSize)]
    /\ last' = [NoLast EXCEPT !.op = "seek", !.id = id, !.ok = TRUE]
    /\ UNCHANGED <<g_KnownKeys, derivations, th, mapBusy, corrupted, bInitialized, handlers>>

\* the object after read(): the position moves by what ReadInternal returned
AfterRead(r) == [r.obj EXCEPT !.pos = @ + r.ret]

\* one cursor for all the objects over the same file
ReadDoneShared(id, n, r) ==
    /\ objs' = [k \in ObjIds |->
                   IF k = id THEN AfterRead(r)
                   ELSE IF objs[k].st = "open" /\ objs[k].path = objs[id].path
                        THEN [objs[k] EXCEPT !.pos = AfterRead(r).pos]
                        ELSE objs[k]]
    /\ last' = [NoLast EXCEPT !.op = "read", !.id = id, !.path = objs[id].path,
                              !.ok = TRUE, !.c = objs[id].pos, !.n = n,
                              !.ret = r.ret, !.data = r.buffer, !.short = r.short]

ReadDone(id, n, r) ==
    /\ objs' = [objs EXCEPT ![id] = AfterRead(r)]
    /\ last' = [NoLast EXCEPT !.op = "read", !.id = id, !.path = objs[id].path,
                              !.ok = TRUE, !.c = objs[id].pos, !.n = n,
                              !.ret = r.ret, !.data = r.buffer, !.short = r.short]

\* read( buf, n ): ReadInternal, and the position moved by what it returned
Read(id, n, junk) ==
    /\ objs[id].st = "open"
    /\ ReadDone(id, n, ReadInternal(objs[id], n, junk))
    /\ UNCHANGED <<g_KnownKeys, derivations, th, mapBusy, corrupted, bInitialized, handlers>>

\* the handle is dropped
Close(id) ==
    /\ objs[id].st = "open"
    /\ objs' = [objs EXCEPT ![id] = NoObj]
    /\ last' = [NoLast EXCEPT !.op = "close", !.id = id, !.ok = TRUE]
    /\ UNCHANGED <<g_KnownKeys, derivations, th, mapBusy, corrupted, bInitialized, handlers>>

(***************************************************************************)
(* Two systems over the same calls.  Spec: the file objects' life: opens   *)
(* under every path, string address and secret, clones, closes.            *)
(* SpecRead: one file object read at many positions: around block          *)
(* boundaries, around the chain reset at 4080, at and past the end.        *)
(***************************************************************************)
Next ==
    \/ \E id \in ObjIds, path \in Paths, addr \in Addrs, own \in Addrs, secret \in Secrets :
          Open(id, path, addr, own, secret)
    \/ \E src \in ObjIds, id \in ObjIds, own \in Addrs : Copy(src, id, own)
    \/ \E id \in ObjIds : Close(id)

Spec == Init /\ [][Next]_vars

SeekTargets == {0, 15, 95, 4079}

ReadLens == {0, 1, 2, 10, 17}

ReadPaths == {"big", "twin", "song"}

NextRead ==
    \/ \E path \in ReadPaths, secret \in Secrets : Open(1, path, 1, 1, secret)
    \/ \E p \in SeekTargets : Seek(1, p)
    \/ \E n \in ReadLens, junk \in Junk :
          /\ objs[1].pos \in ReadStarts(objs[1], SeekTargets, ReadLens)
          /\ Read(1, n, junk)
    \/ Close(1)

SpecRead == Init /\ [][NextRead]_vars

(***************************************************************************)
(* OpenInternal on two threads at once.  Each thread runs one open, phase  *)
(* by phase; the header lives in the thread's own object, the key cache is *)
(* the process-wide map, and nothing orders one thread's map operation     *)
(* against the other's.  A find or an insert takes time (Begin .. End); a  *)
(* map operation that overlaps another thread's insert is a data race,     *)
(* after which the map may be damaged.                                     *)
(***************************************************************************)
ConcPaths == {"big", "song", "short"}

SetPc(t, pc) == th' = [th EXCEPT ![t].pc = pc]

Races(t, writing) ==
    \E u \in mapBusy : u # t /\ (writing \/ th[u].pc = "inserting")

\* lines 60-124
T_BeginDone(t, path, addr, secret, h) ==
    th' = [th EXCEPT ![t] = [IdleThread EXCEPT
              !.pc = IF h.ok THEN "find" ELSE "done",
              !.path = path, !.addr = addr, !.secret = secret,
              !.subkey = h.subkey, !.verifyblock = h.verifyblock]]

T_Begin(t, path, addr, secret) ==
    /\ th[t].pc = "idle"
    /\ T_BeginDone(t, path, addr, secret, ParseHeader(NewObj(path, addr, secret)))
    /\ UNCHANGED <<objs, g_KnownKeys, derivations, last, mapBusy, corrupted, bInitialized, handlers>>

\* line 128: g_KnownKeys.find() starts walking the tree
T_FindBegin(t) ==
    /\ th[t].pc = "find"
    /\ SetPc(t, "finding")
    /\ mapBusy' = mapBusy \cup {t}
    /\ \E damage \in BOOLEAN :
          corrupted' = (corrupted \/ (damage /\ Races(t, FALSE)))
    /\ UNCHANGED <<objs, g_KnownKeys, derivations, last, bInitialized, handlers>>

\* lines 128-131 and 167-172: the outcome of the lookup
T_FindEnd(t) ==
    /\ th[t].pc = "finding"
    /\ \E found \in {FindKey(g_KnownKeys, th[t].addr)}
                       \cup (IF corrupted THEN {NoKey} ELSE {}) :
          th' = [th EXCEPT ![t].pc = IF found = NoKey THEN "derive" ELSE "verify",
                           ![t].AESKey = found]
    /\ mapBusy' = mapBusy \ {t}
    /\ UNCHANGED <<objs, g_KnownKeys, derivations, last, corrupted, bInitialized, handlers>>

\* lines 133-162
T_Derive(t) ==
    /\ th[t].pc = "derive"
    /\ th' = [th EXCEPT ![t].pc = "insert",
                        ![t].AESKey = DeriveKey(th[t].secret, th[t].subkey)]
    /\ derivations' = [derivations EXCEPT ![th[t].path] = @ + 1]
    /\ UNCHANGED <<objs, g_KnownKeys, last, mapBusy, corrupted, bInitialized, handlers>>

\* line 165: operator[] starts inserting the node
T_InsertBegin(t) ==
    /\ th[t].pc = "insert"
    /\ SetPc(t, "inserting")
    /\ mapBusy' = mapBusy \cup {t}
    /\ \E damage \in BOOLEAN :
          corrupted' = (corrupted \/ (damage /\ Races(t, TRUE)))
    /\ UNCHANGED <<objs, g_KnownKeys, derivations, last, bInitialized, handlers>>

\* line 165: the entry is in the map
T_InsertEnd(t) ==
    /\ th[t].pc = "inserting"
    /\ SetPc(t, "verify")
    /\ g_KnownKeys' = InsertKey(g_KnownKeys, th[t].addr, th[t].AESKey)
    /\ mapBusy' = mapBusy \ {t}
    /\ UNCHANGED <<objs, derivations, last, corrupted, bInitialized, handlers>>

\* lines 176-190
T_Verify(t) ==
    /\ th[t].pc = "verify"
    /\ th' = [th EXCEPT ![t].pc = "done",
                        ![t].ok = VerifyKey(th[t].verifyblock, th[t].AESKey)]
    /\ UNCHANGED <<objs, g_KnownKeys, derivations, last, mapBusy, corrupted, bInitialized, handlers>>

NextConc ==
    \E t \in Threads :
        \/ \E path \in ConcPaths, addr \in Addrs, secret \in Secrets :
              T_Begin(t, path, addr, secret)
        \/ T_FindBegin(t)
        \/ T_FindEnd(t)
        \/ T_Derive(t)
        \/ T_InsertBegin(t)
        \/ T_InsertEnd(t)
        \/ T_Verify(t)

SpecConc == Init /\ [][NextConc]_vars

(***************************************************************************)
(* What the files hold, read off the format table, and a file object as    *)
(* its open left it, placed at a position.                                 *)
(***************************************************************************)
FileSize(path) == FromLE32(SubSeq(Disk[path], 3, 6))

SubkeyLen(path) == FromLE32(SubSeq(Disk[path], 7, 10))

PlainFile(path) == IF path = "big" THEN BigPlain ELSE SmallPlain

OtherFile(path) == IF path = "big" THEN "twin" ELSE "big"

\* the object o as its open left it (the descriptor just past the header),
\* placed at position c of the file under path
JustOpened(o, path, c) ==
    [o EXCEPT !.path = path, !.pos = c, !.rawpos = o.m_iHeaderSize]

(***************************************************************************)
(* C1  Round trip.  The bodies of "big" and "song" are what the producer   *)
(* writes for BigPlain and SmallPlain (ProducerBody: per block AES-encrypt *)
(* of plaintext XOR ((previous ciphertext byte j) - j), the previous block *)
(* zero every 4080 bytes).  Every read of an open file returns, at each    *)
(* requested offset inside the plaintext, exactly that plaintext byte.     *)
(***************************************************************************)
C1_RoundTrip ==
    (last.op = "read" /\ last.path \in {"big", "song"}) =>
        \A k \in 1..last.n :
            last.c + k <= Len(PlainFile(last.path))
                => last.data[k] = PlainFile(last.path)[last.c + k]

\* a read of 17 bytes from 4079: the last byte of segment 0 and the whole
\* first block of segment 1
C1_Witness ==
    /\ last.op = "read" /\ last.path = "big" /\ last.c = 4079 /\ last.n = 17
    /\ last.data = SubSeq(BigPlain, 4080, 4096)

(***************************************************************************)
(* C2  A read of n bytes at cursor c <= plaintext_size with                *)
(* c + n > plaintext_size returns plaintext_size - c bytes and leaves the  *)
(* cursor at plaintext_size.                                               *)
(***************************************************************************)
C2_Truncated ==
    (/\ last.op = "read"
     /\ last.c <= FileSize(last.path)
     /\ last.c + last.n > FileSize(last.path))
        => /\ last.ret = FileSize(last.path) - last.c
           /\ Len(last.data) = FileSize(last.path) - last.c
           /\ objs[last.id].pos = FileSize(last.path)

(***************************************************************************)
(* C3  Split-read equivalence: from the cursor an open file has, read(n)   *)
(* delivers the same bytes and ends at the same cursor as read(k) followed *)
(* by read(n-k), for every modelled n and every 0 < k < n, whatever the    *)
(* buffers held before.                                                    *)
(***************************************************************************)
SplitAgrees(o, n, k, j1, j2) ==
    LET whole  == ReadInternal(o, n, j1)
        first  == ReadInternal(o, k, j2)
        second == ReadInternal(AfterRead(first), n - k, j2)
    IN  /\ whole.buffer = first.buffer \o second.buffer
        /\ AfterRead(whole).pos = AfterRead(second).pos

C3_SplitRead ==
    \A id \in ObjIds :
        objs[id].st = "open" =>
            \A n \in ReadLens, j1 \in Junk, j2 \in Junk :
                \A k \in 1..(n - 1) : SplitAgrees(objs[id], n, k, j1, j2)

(***************************************************************************)
(* C4  Read is history-independent: the bytes a read of n bytes at         *)
(* position p returned are the bytes the same read returns on a file       *)
(* object that was just opened and placed at p.                            *)
(***************************************************************************)
C4_HistoryFree ==
    last.op = "read" =>
        \A junk \in Junk :
            last.data = ReadInternal(JustOpened(objs[last.id], last.path, last.c),
                                     last.n, junk).buffer

(***************************************************************************)
(* C5  Chain-reset independence.  "big" and "twin" differ only in the      *)
(* ciphertext of block 254 (body offsets 4064..4079).  Every byte a read   *)
(* returned for plaintext offsets 4080..4095 (block 255, the first of      *)
(* segment 1) is the byte the same read returns on the other file, whether *)
(* the read began at 4080 or earlier, in segment 0.                        *)
(***************************************************************************)
C5_ChainReset ==
    (last.op = "read" /\ last.path \in {"big", "twin"}) =>
        \A junk \in Junk : \A k \in 1..last.n :
            (last.c + k - 1 >= 4080 /\ last.c + k - 1 < 4096)
                => last.data[k] =
                     ReadInternal(JustOpened(objs[last.id], OtherFile(last.path), last.c),
                                  last.n, junk).buffer[k]

\* a read that starts in segment 0, where the two files decode differently,
\* and runs through block 255
C5_Witness ==
    /\ last.op = "read" /\ last.path = "big" /\ last.c = 4079 /\ last.n = 17
    /\ last.data[1] # ReadInternal(JustOpened(objs[last.id], "twin", 4079), 17, 0).buffer[1]
    /\ last.data[2] = ReadInternal(JustOpened(objs[last.id], "twin", 4079), 17, 0).buffer[2]

(***************************************************************************)
(* C3, C4 (the part the code does keep): where the look-behind block and   *)
(* the ciphertext window lie inside the stored file, the split reads and   *)
(* the read on a just-opened object agree with the read made.              *)
(***************************************************************************)
Stored(o, n) == o.m_iHeaderSize + EndPos(Tell(o), n) <= Len(Disk[o.path])

C3_SplitReadStored ==
    \A id \in ObjIds :
        objs[id].st = "open" =>
            \A n \in ReadLens, j1 \in Junk, j2 \in Junk :
                Stored(objs[id], n) =>
                    \A k \in 1..(n - 1) : SplitAgrees(objs[id], n, k, j1, j2)

C4_HistoryFreeStored ==
    (last.op = "read" /\ ~last.short) =>
        \A junk \in Junk :
            last.data = ReadInternal(JustOpened(objs[last.id], last.path, last.c),
                                     last.n, junk).buffer

(***************************************************************************)
(* The header as the format table lays it out, independent of the parse.   *)
(***************************************************************************)
HasHeader(path) ==
    /\ FileExists(path)
    /\ Len(Disk[path]) >= 10
    /\ Len(Disk[path]) >= 10 + SubkeyLen(path) + 16

VerifyBlockOf(path) == SubSeq(Disk[path], 10 + SubkeyLen(path) + 1, 10 + SubkeyLen(path) + 16)

ExpectedMagic(secret) == IF secret = "" THEN MagicArcade ELSE MagicPatch

DecryptsToMagic(path, key) ==
    /\ aes_decrypt(VerifyBlockOf(path), key)[1] = 58
    /\ aes_decrypt(VerifyBlockOf(path), key)[2] = 68

IsOpening(l) == l.op \in {"open", "copy"}

(***************************************************************************)
(* C6  Verify-block gating.  An open or clone that succeeded loaded a key  *)
(* under which the file's verify block decrypts to ':' 'D' ...; an open or *)
(* clone that got as far as loading a key under which it does not, failed, *)
(* and the caller got no file object.                                      *)
(***************************************************************************)
C6_VerifyGate ==
    IsOpening(last) =>
        /\ last.ok => (HasHeader(last.path) /\ DecryptsToMagic(last.path, last.key)
                        /\ objs[last.id].st = "open" /\ objs[last.id].m_ctx = last.key)
        /\ (last.stage \in {"", "verify"} /\ ~DecryptsToMagic(last.path, last.key))
              => (~last.ok /\ objs[last.id].st = "none")

\* a clone whose re-open found another key under its path string's address
C6_Witness ==
    /\ last.op = "copy" /\ last.stage = "verify" /\ ~last.ok
    /\ ~DecryptsToMagic(last.path, last.key)
    /\ objs[last.id].st = "none"

(***************************************************************************)
(* C7  Magic selection.  An open of a file whose first two bytes are not   *)
(* the magic of the configured variant (":|" without a secret, "8O" with   *)
(* one) fails, derives no key and leaves the key cache as it was.          *)
(***************************************************************************)
WrongMagic(l) ==
    /\ IsOpening(l)
    /\ FileExists(l.path)
    /\ Len(Disk[l.path]) >= 2
    /\ SubSeq(Disk[l.path], 1, 2) # ExpectedMagic(l.secret)

C7_MagicSelection ==
    [][WrongMagic(last') =>
          /\ ~last'.ok
          /\ ~last'.derived
          /\ objs' = objs
          /\ derivations' = derivations
          /\ g_KnownKeys' = g_KnownKeys]_vars

\* the arcade file opened by the driver that has a secret
C7_Witness ==
    /\ last.op = "open" /\ last.path = "song" /\ last.secret = ITG2_PATCH_KEY
    /\ last.stage = "magic" /\ ~last.ok

(***************************************************************************)
(* C8  KeyCache single-derivation: over any sequence of opens and clones,  *)
(* a key is derived at most once for each path value.                      *)
(***************************************************************************)
C8_SingleDerivation == \A p \in Paths : derivations[p] <= 1

(***************************************************************************)
(* C9  A failed open never changes the key cache: after an open or clone   *)
(* that returned failure, the cache is what it was before the call.        *)
(***************************************************************************)
C9_FailedOpenKeepsCache ==
    [][(IsOpening(last') /\ ~last'.ok) => g_KnownKeys' = g_KnownKeys]_vars

(***************************************************************************)
(* C10  Two threads open the same path, not yet cached, at the same time:  *)
(* when both are through, the cache holds exactly one entry, it is the     *)
(* key derived for that path, no more than two derivations were made, both *)
(* threads use the cached key, and the map is intact.                      *)
(***************************************************************************)
C10_ConcurrentOpens ==
    (/\ \A t \in Threads : th[t].pc = "done" /\ th[t].AESKey # NoKey
     /\ \A t, u \in Threads : th[t].path = th[u].path /\ th[t].secret = th[u].secret)
        => /\ ~corrupted
           /\ Cardinality({a \in Addrs : g_KnownKeys[a] # NoKey}) = 1
           /\ \A t \in Threads :
                 /\ g_KnownKeys[th[t].addr] = DeriveKey(th[t].secret, th[t].subkey)
                 /\ th[t].AESKey = g_KnownKeys[th[t].addr]
                 /\ derivations[th[t].path] <= 2

(***************************************************************************)
(* C12  Cursor invariant: the cursor of every open file object lies in     *)
(* 0 .. plaintext_size, whatever reads and seeks were made.                *)
(***************************************************************************)
C12_CursorInRange ==
    \A id \in ObjIds :
        objs[id].st = "open" =>
            (0 <= Tell(objs[id]) /\ Tell(objs[id]) <= objs[id].m_iFileSize)

(***************************************************************************)
(* C13  Short body reads are surfaced: a read during which the raw source  *)
(* delivered fewer bytes than demanded, for the look-behind block or for   *)
(* the window, reports an error (a negative return) and not n bytes.       *)
(***************************************************************************)
C13_ShortReadSurfaced ==
    (last.op = "read" /\ last.short) => last.ret < 0

(***************************************************************************)
(* C14  After every successful open the cursor is 0 while the descriptor   *)
(* stands just past the header, and the first read, made without a seek,   *)
(* returns the plaintext from offset 0 on.                                 *)
(***************************************************************************)
FirstBytes(path, n) ==
    SubSeq(IF path \in {"big", "twin"} THEN BigPlain ELSE SmallPlain, 1, n)

C14_CursorAfterOpen ==
    (last.op = "open" /\ last.ok) =>
        /\ Tell(objs[last.id]) = 0
        /\ objs[last.id].rawpos = objs[last.id].m_iHeaderSize
        /\ \A n \in ReadLens, junk \in Junk :
              ReadInternal(objs[last.id], n, junk).buffer = FirstBytes(last.path, n)

\* the arcade file opened: 29 header bytes consumed, the cursor at 0
C14_Witness ==
    /\ last.op = "open" /\ last.ok /\ last.path = "song"
    /\ objs[last.id].rawpos = 29 /\ Tell(objs[last.id]) = 0
    /\ ReadInternal(objs[last.id], 17, 0).buffer = SubSeq(SmallPlain, 1, 17)


(***************************************************************************)
(* The window arithmetic of ReadInternal in 32-bit unsigned integers (the  *)
(* 32-bit build: unsigned int and size_t are both 32 bits wide).  A value  *)
(* is held as 16 * q + r with q < 2^28 and r < 16, so that sums and        *)
(* differences wrap at 2^32 exactly as in the source.                      *)
(***************************************************************************)
W28 == 268435456

U32(q, r) == [q |-> q, r |-> r]

U32Add(a, b) == U32((a.q + b.q + ((a.r + b.r) \div 16)) % W28, (a.r + b.r) % 16)

U32Sub(a, b) ==
    U32((a.q + W28 - b.q - (IF a.r < b.r THEN 1 ELSE 0)) % W28, (a.r + 16 - b.r) % 16)

\* line 201: (oldpos/16) * 16
StartPos32(oldpos) == U32(oldpos.q, 0)

QuantizeUp32(i) == IF i.r = 0 THEN i ELSE U32((i.q + 1) % W28, 0)

\* line 202
EndPos32(oldpos, bytes) == QuantizeUp32(U32Add(oldpos, bytes))

\* line 205
BufSize32(oldpos, bytes) == U32Sub(EndPos32(oldpos, bytes), StartPos32(oldpos))

\* line 209
Difference32(oldpos) == U32Sub(oldpos, StartPos32(oldpos))

\* cursors (in blocks and bytes within the block) and lengths of the calls
WindowBlocks == {0, 1, 2, 254, 255}

WindowOffsets == {0, 1, 15}

LenBlocks == {0, 1, W28 - 1}

\* sums from 2^31 up to 2^32 - 1 are left out: there the result of the
\* rounding depends on the signedness of QuantizeUp's parameters
SumRepresentable(oldpos, bytes) ==
    \/ oldpos.q + bytes.q + ((oldpos.r + bytes.r) \div 16) < W28 \div 2
    \/ oldpos.q + bytes.q + ((oldpos.r + bytes.r) \div 16) >= W28

\* lines 198-215: ReadInternal entered with the cursor oldpos and the length bytes
Window(oldpos, bytes) ==
    /\ SumRepresentable(oldpos, bytes)
    /\ last' = [op |-> "window", oldpos |-> oldpos, bytes |-> bytes,
                bufsize |-> BufSize32(oldpos, bytes),
                difference |-> Difference32(oldpos)]
    /\ UNCHANGED <<objs, g_KnownKeys, derivations, th, mapBusy, corrupted, bInitialized, handlers>>

NextWindow ==
    \E cq \in WindowBlocks, cr \in WindowOffsets, nq \in LenBlocks, nr \in WindowOffsets :
        Window(U32(cq, cr), U32(nq, nr))

SpecWindow == Init /\ [][NextWindow]_vars

(***************************************************************************)
(* C15  For every cursor and every length, the window bufsize computed by  *)
(* read is a positive multiple of 16 and holds the n bytes copied out from *)
(* offset difference: difference + n <= bufsize.                           *)
(***************************************************************************)
C15_Window ==
    last.op = "window" =>
        /\ last.bufsize.r = 0
        /\ last.bufsize.q > 0
        /\ last.bufsize.q >= last.bytes.q + ((last.difference.r + last.bytes.r + 15) \div 16)

\* the same with the empty read at a block boundary left aside: the copy stays
\* inside the decrypted buffer
C15_WindowCovers ==
    last.op = "window" =>
        /\ last.bufsize.r = 0
        /\ last.bufsize.q >= last.bytes.q + ((last.difference.r + last.bytes.r + 15) \div 16)


(***************************************************************************)
(* C16  Mask locality.  Every byte a read returned from a block that the   *)
(* file stores, the block at plaintext offset b, is                        *)
(* AESdecrypt(ct block)[j] XOR ((backbuffer[j] - j) mod 256), where        *)
(* backbuffer is all zeros if b % 4080 = 0 and otherwise the 16 ciphertext *)
(* bytes at raw offset header_size + b - 16: wherever the read started.    *)
(***************************************************************************)
RawBlock(path, at) == SubSeq(Disk[path], at + 1, at + 16)

LookBehind(path, hs, b) ==
    IF b % 4080 = 0 THEN Zeros16 ELSE RawBlock(path, hs + b - 16)

\* the plaintext byte at offset p of the file under path
MaskedByte(path, hs, key, p) ==
    BitXor(aes_decrypt(RawBlock(path, hs + (p \div 16) * 16), key)[(p % 16) + 1],
           (LookBehind(path, hs, (p \div 16) * 16)[(p % 16) + 1] + 256 - (p % 16)) % 256)

C16_MaskLocality ==
    last.op = "read" =>
        \A k \in 1..last.n :
            (objs[last.id].m_iHeaderSize + ((last.c + k - 1) \div 16) * 16 + 16
                  <= Len(Disk[last.path]))
                => last.data[k] = MaskedByte(last.path, objs[last.id].m_iHeaderSize,
                                             objs[last.id].m_ctx, last.c + k - 1)

\* a read that starts inside block 1 of the arcade file and runs into block 2:
\* the first block's mask comes from the look-behind read, the second's from
\* the loop
C16_Witness ==
    /\ last.op = "read" /\ last.path = "song" /\ last.c = 17 /\ last.n = 17
    /\ last.data[1] = MaskedByte("song", 29, SmallKey, 17)
    /\ last.data[17] = MaskedByte("song", 29, SmallKey, 33)
    /\ LookBehind("song", 29, 16) # Zeros16


(***************************************************************************)
(* A file object and its clone: object 1 is opened, sought and read,       *)
(* object 2 is made from it by Copy() and is sought and read on its own.   *)
(***************************************************************************)
ClonePaths == {"big", "song"}

CloneSeeks == {15, 100}

CloneLens == {1, 17}

NextClone ==
    \/ \E path \in ClonePaths, secret \in Secrets : Open(1, path, 1, 1, secret)
    \/ \E own \in Addrs : Copy(1, 2, own)
    \/ \E id \in ObjIds, p \in CloneSeeks : Seek(id, p)
    \/ \E id \in ObjIds, n \in CloneLens, junk \in Junk :
          /\ objs[id].pos \in ReadStarts(objs[id], CloneSeeks, {0})
          /\ Read(id, n, junk)
    \/ \E id \in ObjIds : Close(id)

SpecClone == Init /\ [][NextClone]_vars

(***************************************************************************)
(* C11  Clone preserves the cursor: after a successful Copy() of object 1  *)
(* at cursor c, the clone's Tell() is c, and its next read(n) returns the  *)
(* bytes the original's next read(n) returns, whatever the buffers of the  *)
(* two reads held before.                                                  *)
(***************************************************************************)
C11_ClonePreservesCursor ==
    (last.op = "copy" /\ last.ok) =>
        /\ Tell(objs[2]) = last.c
        /\ Tell(objs[2]) = Tell(objs[1])
        /\ \A n \in CloneLens, j1 \in Junk, j2 \in Junk :
              ReadInternal(objs[2], n, j1).buffer = ReadInternal(objs[1], n, j2).buffer

\* C11 where the windows of the reads lie inside the stored file
C11_ClonePreservesCursorStored ==
    (last.op = "copy" /\ last.ok) =>
        /\ Tell(objs[2]) = last.c
        /\ Tell(objs[2]) = Tell(objs[1])
        /\ \A n \in CloneLens, j1 \in Junk, j2 \in Junk :
              Stored(objs[1], n) =>
                ReadInternal(objs[2], n, j1).buffer = ReadInternal(objs[1], n, j2).buffer

(***************************************************************************)
(* C17  Every open file object, whether made by an open or by the re-open  *)
(* inside Copy(), has header_size = 2 + 4 + 4 + subkey_len + 16 for the    *)
(* subkey length in its file's header, and its reads return the plaintext  *)
(* that lies at raw offset header_size + start.                            *)
(***************************************************************************)
ReadsPlain(o, buffer) ==
    \A k \in 1..Len(buffer) :
        Tell(o) + k <= Len(PlainFile(o.path)) => buffer[k] = PlainFile(o.path)[Tell(o) + k]

C17_HeaderSize ==
    \A id \in ObjIds :
        objs[id].st = "open" =>
            /\ objs[id].m_iHeaderSize = 2 + 4 + 4 + SubkeyLen(objs[id].path) + 16
            /\ ReadsPlain(objs[id], ReadInternal(objs[id], 17, 0).buffer)

\* a clone of the arcade file, re-opened on a copy of an open object's fields
C17_Witness ==
    /\ last.op = "copy" /\ last.ok /\ last.path = "song"
    /\ objs[1].m_iHeaderSize = 29 /\ objs[2].m_iHeaderSize = 29
    /\ Tell(objs[2]) = 15

(***************************************************************************)
(* C18  Clone independence: a read or a seek on one file object leaves     *)
(* every other file object (its cursor, header size, file size, key and    *)
(* descriptor) as it was.                                                  *)
(***************************************************************************)
C18_CloneIndependent ==
    [][\A id \in ObjIds :
          (last'.op \in {"read", "seek"} /\ last'.id # id) => objs'[id] = objs[id]]_vars

\* the clone read on, the original still where it was
C18_Witness ==
    /\ last.op = "read" /\ last.id = 2 /\ last.c = 15 /\ last.n = 17
    /\ objs[1].st = "open" /\ Tell(objs[1]) = 15 /\ Tell(objs[2]) = 32
    /\ objs[1].path = objs[2].path


(***************************************************************************)
(* C19  The key of every open file object is the key derived from its own  *)
(* file's subkey under its own secret (SHA-512 of subkey and secret with a *)
(* secret, the dongle without), also when the key came out of the cache.   *)
(***************************************************************************)
SubkeyOf(path) == SubSeq(Disk[path], 11, 10 + SubkeyLen(path))

C19_OwnKey ==
    \A id \in ObjIds :
        objs[id].st = "open" =>
            objs[id].m_ctx = DeriveKey(objs[id].m_sSecret, SubkeyOf(objs[id].path))


(***************************************************************************)
(* InputHandler_PIUIO (arch/InputHandler/InputHandler_PIUIO.cpp): the      *)
(* constructor and the destructor against the static flag bInitialized.    *)
(***************************************************************************)
FileVars == <<objs, g_KnownKeys, derivations, th, mapBusy, corrupted>>

\* lines 55-59: the flag is set, the constructor returns at once; no member
\* has been assigned, m_bFoundDevice holds what the memory held (junk)
ConstructRedundant(h, junk) ==
    /\ handlers' = [handlers EXCEPT ![h] =
                       [NoHandler EXCEPT !.st = "alive", !.m_bFoundDevice = junk,
                                         !.redundant = TRUE]]
    /\ UNCHANGED bInitialized

\* lines 61-70: Board.Open() failed
ConstructNoDevice(h) ==
    /\ handlers' = [handlers EXCEPT ![h] = [NoHandler EXCEPT !.st = "alive"]]
    /\ UNCHANGED bInitialized

\* lines 61-96: the board is opened, the flag set, the thread created
ConstructOwner(h) ==
    /\ handlers' = [handlers EXCEPT ![h] =
                       [NoHandler EXCEPT !.st = "alive", !.m_bFoundDevice = TRUE,
                                         !.Board = "open", !.InputThread = TRUE]]
    /\ bInitialized' = TRUE

\* lines 53-97; found is the result of Board.Open()
Construct(h, found, junk) ==
    /\ handlers[h].st = "none"
    /\ IF bInitialized THEN ConstructRedundant(h, junk)
       ELSE IF ~found THEN ConstructNoDevice(h)
       ELSE ConstructOwner(h)
    /\ last' = [op |-> "construct", id |-> h, redundant |-> bInitialized,
                wrote |-> FALSE, closed |-> FALSE, flagBefore |-> bInitialized]
    /\ UNCHANGED FileVars

\* lines 99-119: the thread is joined if it was created; if m_bFoundDevice,
\* the lights are reset, the board is closed and the flag cleared
Destruct(h) ==
    /\ handlers[h].st = "alive"
    /\ handlers' = [handlers EXCEPT ![h] = NoHandler]
    /\ bInitialized' = IF handlers[h].m_bFoundDevice THEN FALSE ELSE bInitialized
    /\ last' = [op |-> "destroy", id |-> h, redundant |-> handlers[h].redundant,
                wrote |-> handlers[h].m_bFoundDevice,
                closed |-> handlers[h].m_bFoundDevice, flagBefore |-> bInitialized]
    /\ UNCHANGED FileVars

NextPIUIO ==
    \/ \E h \in HandlerIds, found \in BOOLEAN, junk \in BOOLEAN : Construct(h, found, junk)
    \/ \E h \in HandlerIds : Destruct(h)

SpecPIUIO == Init /\ [][NextPIUIO]_vars

(***************************************************************************)
(* C20  Over any constructions and destructions of InputHandler_PIUIO      *)
(* instances: at most one live instance has opened the board, bInitialized *)
(* is true exactly while such an instance is alive, and the destruction of *)
(* a redundant instance neither writes to the board nor closes it nor      *)
(* changes bInitialized.                                                   *)
(***************************************************************************)
Owners == {h \in HandlerIds : handlers[h].st = "alive" /\ handlers[h].Board = "open"}

C20_SingleOwner ==
    /\ Cardinality(Owners) <= 1
    /\ bInitialized = (Owners # {})
    /\ (last.op = "destroy" /\ last.redundant)
          => (~last.wrote /\ ~last.closed /\ bInitialized = last.flagBefore)


====
